---- MODULE Spec2Model ----
\* Model of the Tableau user export (lamba_function.py): the runs of
\* lambda_handler in one process against a server whose responses are inputs.
\* Strings are sequences of one-character strings; "" is <<>>.
EXTENDS Integers, Sequences, FiniteSets, TLC

VARIABLES
    pc,         \* position of the run inside lambda_handler
    server,     \* the mocked server: users held, page size it serves, pagination metadata
    page_size,  \* list_site_users' page_size argument
    tsec,       \* the Tableau secret as stored in the secrets manager
    creds,      \* pat_name, pat_secret, site_slug read from the secret
    session,    \* token and site_id returned by signin
    users,      \* list_site_users' accumulator
    page,       \* list_site_users' page counter
    log,        \* every HTTP request issued, in order, with its response
    err,        \* the exception that aborted the run, if any
    s3obj,      \* the object stored under the export key
    s3dest,     \* the bucket and key of the last put_object call
    puts,       \* number of put_object calls of the run that succeeded
    result,     \* lambda_handler's return value
    s3sec,      \* the storage secret as stored in the secrets manager
    API_VERSION,\* the module global of line 11
    VERIFY_SSL, \* the module global of line 12
    run,        \* number of the lambda_handler invocation in this process
    replay      \* what the earlier run exchanged and stored, kept for comparison

vars == <<pc, server, page_size, tsec, creds, session, users, page, log, err, s3obj, s3dest, puts,
          result, s3sec, API_VERSION, VERIFY_SSL, run, replay>>

\* ---------------------------------------------------------------- bounds
MaxUsers == 5
MaxPageSize == 3
MaxPages == 3
MaxSecretLen == 2

\* ---------------------------------------------------------------- helpers
Min(a, b) == IF a < b THEN a ELSE b

Last(s) == s[Len(s)]

RECURSIVE Concat(_)
Concat(ss) == IF ss = <<>> THEN <<>> ELSE Head(ss) \o Concat(Tail(ss))

Digits == <<"0", "1", "2", "3", "4", "5", "6", "7", "8", "9">>
Digit(i) == Digits[(i % 10) + 1]

\* ---------------------------------------------------------------- the server
Statuses == {200, 406}
CTypes == {"application/json;charset=utf-8", "Application/XML;charset=utf-8", "text/html"}
BodyLens == {0, 401}
Tokens == {"tokA"}
SiteIds == {"site1"}

\* (ctype or "").lower().startswith("application/json")
IsJsonCType(ct) == ct \in {"application/json", "application/json;charset=utf-8", "Application/JSON"}

\* "xml" in (ctype or "").lower()
IsXmlCType(ct) == ct \in {"application/xml", "Application/XML;charset=utf-8", "text/xml"}

\* the six export fields
fields == <<"id", "name", "fullName", "siteRole", "lastLogin", "email">>

\* the value the server holds for field k of user i: a string that names
\* its field; full names hold a comma, some names a quote or a line break
UserValue(k, i) ==
    IF k = "fullName" THEN <<k, ",", Digit(i)>>
    ELSE IF k = "name" /\ i % 3 = 2 THEN <<k, "\"", Digit(i)>>
    ELSE IF k = "name" /\ i % 3 = 0 THEN <<k, "\n", Digit(i)>>
    ELSE <<k, Digit(i)>>

\* the keys the server sends for user i: some users lack fields
UserKeys(i) ==
    IF i % 3 = 1 THEN {"id", "name", "fullName", "siteRole", "lastLogin", "email"}
    ELSE IF i % 3 = 2 THEN {"id", "name", "siteRole"}
    ELSE {"id", "name", "fullName", "siteRole", "lastLogin"}

\* a user object of a structured (JSON) page: carries keys the export ignores
JsonUser(i) == [k \in UserKeys(i) \cup {"authSetting", "locale"} |-> UserValue(k, i)]

\* the attribute map of a <user> element of a markup (XML) page
XmlUser(i) == [k \in UserKeys(i) \cup {"externalAuthUserId"} |-> UserValue(k, i)]

\* the user numbers the server puts on page p
ServerPage(srv, p) ==
    LET lo == (p - 1) * srv.cap + 1
        hi == Min(p * srv.cap, srv.n)
    IN IF lo > hi THEN <<>> ELSE [j \in 1..(hi - lo + 1) |-> lo + j - 1]

JsonBatch(srv, p) == [j \in 1..Len(ServerPage(srv, p)) |-> JsonUser(ServerPage(srv, p)[j])]
XmlBatch(srv, p) == [j \in 1..Len(ServerPage(srv, p)) |-> XmlUser(ServerPage(srv, p)[j])]

\* the server pages by the requested page size and reports the true total
Conforming == server.cap = page_size /\ server.reportsTotal

\* ---------------------------------------------------------------- the serializer
\* a missing key read as None and written as its text
GetNone(u, k) == IF k \in DOMAIN u THEN u[k] ELSE <<"N", "o", "n", "e">>

\* u.get(k, "")
Get(u, k) == IF k \in DOMAIN u THEN u[k] ELSE <<>>

\* the columns written with name and fullName exchanged
RowSwapped(u) ==
    [j \in 1..Len(fields) |-> Get(u, fields[IF j = 2 THEN 3 ELSE IF j = 3 THEN 2 ELSE j])]

\* {k: u.get(k, "") for k in fields}, written in fieldnames order
Row(u) == [j \in 1..Len(fields) |-> Get(u, fields[j])]

\* w.writeheader()
HeaderRow == [j \in 1..Len(fields) |-> <<fields[j]>>]

\* no header for an empty list
RowsNoHeaderWhenEmpty(us) ==
    IF us = <<>> THEN <<>> ELSE <<HeaderRow>> \o [j \in 1..Len(us) |-> Row(us[j])]

\* the rows write_csv_to_s3 writes, lines 111-113
Rows(us) == <<HeaderRow>> \o [j \in 1..Len(us) |-> Row(us[j])]

\* the characters the csv writer quotes a field for
CsvSpecial == {",", "\"", "\r", "\n"}

\* csv.writer, excel dialect: a field holding a special character is put in
\* quotes, a quote inside it doubled
CsvField(v) ==
    IF \E j \in 1..Len(v) : v[j] \in CsvSpecial
    THEN <<"\"">> \o Concat([j \in 1..Len(v) |-> IF v[j] = "\"" THEN <<"\"", "\"">> ELSE <<v[j]>>])
         \o <<"\"">>
    ELSE v

\* one line: the fields joined by commas, ended by \r\n
CsvLine(row) ==
    Concat([j \in 1..Len(row) |-> IF j = 1 THEN CsvField(row[j]) ELSE <<",">> \o CsvField(row[j])])
    \o <<"\r", "\n">>

\* buf.getvalue(): the text of all rows
CsvText(rows) == Concat([j \in 1..Len(rows) |-> CsvLine(rows[j])])

\* ---------------------------------------------------------------- the transport
\* what urlopen does with a request: it returns a response, raises HTTPError
\* for an error status (whose headers may be missing), or raises another
\* error when no response arrives (no connection, TLS, timeout)
Wire ==
    [kind : {"response"}, status : {200}, ctype : CTypes, len : BodyLens]
    \cup [kind : {"HTTPError"}, status : Statuses \ {200},
          ctype : (CTypes \ {"text/html"}) \cup {""}, len : BodyLens]
    \cup {[kind |-> "URLError", status |-> 0, ctype |-> "", len |-> 0]}

\* HTTPError left to propagate like every other error
HttpRequestUncaught(w) ==
    IF w.kind = "response"
    THEN [raised |-> FALSE, status |-> w.status, ctype |-> w.ctype, len |-> w.len]
    ELSE [raised |-> TRUE, status |-> 0, ctype |-> "", len |-> 0]

\* _http_request, lines 44-50: the triple returned to the caller, or raised
HttpRequest(w) ==
    IF w.kind = "URLError"
    THEN [raised |-> TRUE, status |-> 0, ctype |-> "", len |-> 0]
    ELSE [raised |-> FALSE, status |-> w.status, ctype |-> w.ctype, len |-> w.len]

\* ---------------------------------------------------------------- the configuration
DefaultApiVersion == "3.19"
DefaultVerifySsl == TRUE

\* a boolean as a secret value
BoolValue(b) == [t |-> "bool", v |-> IF b THEN "True" ELSE "False"]

\* the values a secret may hold for VERIFY_SSL: booleans, strings, a number
VerifyValues ==
    { BoolValue(FALSE), BoolValue(TRUE),
      [t |-> "str", v |-> "off"], [t |-> "str", v |-> " TRUE "],
      [t |-> "str", v |-> ""], [t |-> "str", v |-> "enabled"],
      [t |-> "num", v |-> "0"] }

\* val.strip().lower()
StripLower(s) == IF s = " TRUE " THEN "true" ELSE s

TrueStrings == {"1", "true", "yes", "y", "on"}

\* _to_bool, lines 29-34
ToBool(val, default) ==
    IF val.t = "bool" THEN val.v = "True"
    ELSE IF val.t = "str" THEN StripLower(val.v) \in TrueStrings
    ELSE default

\* ---------------------------------------------------------------- the run
SnippetLen == 400

NoErr == [kind |-> "none", status |-> 0, ctype |-> "", snippet |-> 0, len |-> 0]
NoSession == [token |-> "", site_id |-> ""]
NoCreds == [pat_name |-> <<>>, pat_secret |-> <<>>, site |-> <<>>]
NoObject == <<>>
NoDest == [bucket |-> "", key |-> ""]
NoResult == [status |-> "", count |-> 0, bucket |-> "", key |-> "", api_version |-> ""]
NoReplay == [log |-> <<>>, s3obj |-> NoObject, s3dest |-> NoDest, result |-> NoResult]

\* the sessions the server of a plain run grants
Sessions == [token : Tokens, site_id : SiteIds]

\* a server may grant another token for another site
TwoSessions == Sessions \cup {[token |-> "tokB", site_id |-> "site2"]}

\* strings over the alphabet cs, up to length n
RECURSIVE StringsUpTo(_, _)
StringsUpTo(cs, n) ==
    IF n = 0 THEN {<<>>}
    ELSE LET shorter == StringsUpTo(cs, n - 1)
         IN shorter \cup {Append(w, c) : w \in shorter, c \in cs}

\* a secret bundle holding all the keys lambda_handler requires
Bundle(name, secret, site) ==
    [SERVER |-> <<"h">>, PAT_NAME |-> name, PAT_SECRET |-> secret, SITE_CONTENT_URL |-> site]

\* bundles of plain values, one of them lacking a required key
PlainBundles ==
    { Bundle(<<"n">>, <<"s">>, <<"a">>),
      [SERVER |-> <<"h">>, PAT_NAME |-> <<"n">>] }

\* a bundle lacking the optional site
NoSiteBundles == { [SERVER |-> <<"h">>, PAT_NAME |-> <<"n">>, PAT_SECRET |-> <<"s">>] }

\* bundles whose values may hold characters reserved in markup
ReservedBundles ==
    { Bundle(name, secret, site) :
        name \in {<<"n">>, <<"n", "\"">>},
        secret \in StringsUpTo({"s", "\"", "<", "&"}, MaxSecretLen) \ {<<>>},
        site \in {<<>>, <<"a">>, <<"<">>} }

\* bundles that set the optional API_VERSION or VERIFY_SSL, and one that
\* sets both and lacks a required key
ConfigBundles ==
    { Bundle(<<"n">>, <<"s">>, <<"a">>),
      Bundle(<<"n">>, <<"s">>, <<"a">>) @@ [API_VERSION |-> "3.20"],
      [SERVER |-> <<"h">>, API_VERSION |-> "3.21", VERIFY_SSL |-> BoolValue(FALSE)] }
    \cup { Bundle(<<"n">>, <<"s">>, <<"a">>) @@ [VERIFY_SSL |-> v] : v \in VerifyValues }

\* the storage secret, with and without its bucket
BucketSecrets == { [S3_BUCKET |-> "bucket1"], [S3_REGION |-> "r"] }

RequiredKeys == {"SERVER", "PAT_NAME", "PAT_SECRET"}

\* signin, lines 59-64: the request body, the values interpolated as they are
SigninBody(pat_name, pat_secret, site_content_url) ==
    <<"<tsRequest>", "<credentials", " personalAccessTokenName=", "\"">> \o pat_name
    \o <<"\"", " personalAccessTokenSecret=", "\"">> \o pat_secret
    \o <<"\"", ">", "<site", " contentUrl=", "\"">> \o site_content_url
    \o <<"\"", "/>", "</credentials>", "</tsRequest>">>

\* the listing requests sent without the session
RequestPartNoSession(op, accept, p) ==
    [op |-> op, accept |-> accept, page |-> p,
     page_size |-> IF op = "users" THEN page_size ELSE 0,
     api |-> API_VERSION, verify |-> VERIFY_SSL,
     token |-> "", site_id |-> "",
     body |-> IF op = "signin" THEN SigninBody(creds.pat_name, creds.pat_secret, creds.site) ELSE <<>>]

\* what a request is made of: the operation, the Accept header, the page and
\* page size of the query, the API version of the URL, whether the
\* certificate is verified, the site id of the URL, the X-Tableau-Auth
\* token, the body
RequestPart(op, accept, p) ==
    [op |-> op, accept |-> accept, page |-> p,
     page_size |-> IF op = "users" THEN page_size ELSE 0,
     api |-> API_VERSION, verify |-> VERIFY_SSL,
     token |-> session.token, site_id |-> session.site_id,
     body |-> IF op = "signin" THEN SigninBody(creds.pat_name, creds.pat_secret, creds.site) ELSE <<>>]

RequestFields == {"op", "accept", "page", "page_size", "api", "verify", "token", "site_id", "body"}

\* what the caller read from a response body
Unparsed == [parsed |-> FALSE, n |-> -1, total |-> -1, granted |-> NoSession]
ParsedSession(s) == [parsed |-> TRUE, n |-> -1, total |-> -1, granted |-> s]
ParsedPage(n, total) == [parsed |-> TRUE, n |-> n, total |-> total, granted |-> NoSession]

\* one entry of the request log: the request, what urlopen did with it,
\* what _http_request returned, what the caller read from the body
Request(op, accept, p, w, content) ==
    RequestPart(op, accept, p)
    @@ [sent |-> [kind |-> w.kind, status |-> w.status, ctype |-> w.ctype],
        raised |-> HttpRequest(w).raised,
        status |-> HttpRequest(w).status, ctype |-> HttpRequest(w).ctype]
    @@ content

\* the entries of the earlier run's log that hold the same request
Earlier(op, accept, p) ==
    {i \in 1..Len(replay.log) :
        [f \in RequestFields |-> replay.log[i][f]] = RequestPart(op, accept, p)}

\* an unchanged server answers a request it has answered before the same
\* way; any other request as it likes
Answers(op, accept, p) ==
    LET earlier == Earlier(op, accept, p)
    IN IF earlier = {} THEN Wire
       ELSE {w \in Wire : \E i \in earlier :
                 [kind |-> w.kind, status |-> w.status, ctype |-> w.ctype] = replay.log[i].sent}

\* the body of the answer can be read, respectively cannot
Readable(op, accept, p) == \A i \in Earlier(op, accept, p) : replay.log[i].parsed
Garbled(op, accept, p) == \A i \in Earlier(op, accept, p) : ~replay.log[i].parsed

\* a connection-level failure: urlopen raises, no response is returned
NoResponse == [status |-> 0, ctype |-> "", len |-> 0]

\* text[:400], as the number of characters kept
Snippet(len) == Min(len, SnippetLen)

\* what was accumulated is exported before the exception leaves
RaiseAfterExport(kind, r) ==
    /\ pc' = "failed"
    /\ err' = [kind |-> kind, status |-> r.status, ctype |-> r.ctype,
               snippet |-> Snippet(r.len), len |-> r.len]
    /\ s3obj' = CsvText(Rows(users))
    /\ puts' = puts + 1
    /\ users' = <<>>
    /\ UNCHANGED <<creds, session, page, s3dest, result>>

\* an exception propagates out of lambda_handler (lines 68, 93 and every
\* call that raises): the message carries status, content type and snippet
\* (len is the length of the response text the snippet was cut from);
\* the locals are gone, nothing is stored, nothing is returned
Raise(kind, r) ==
    /\ pc' = "failed"
    /\ err' = [kind |-> kind, status |-> r.status, ctype |-> r.ctype,
               snippet |-> Snippet(r.len), len |-> r.len]
    /\ users' = <<>>
    /\ UNCHANGED <<creds, session, page, s3obj, s3dest, puts, result>>

\* the state before the first lambda_handler run of a process, for a set of
\* secret bundles, a server size and the sessions the server may grant
InitWith(bundles, maxUsers, maxPageSize, sessions) ==
    /\ pc = "start"
    /\ server \in [n : 0..maxUsers, cap : 1..maxPageSize, reportsTotal : BOOLEAN,
                   session : sessions]
    /\ page_size \in 1..maxPageSize
    /\ server.cap <= page_size
    /\ server.n <= MaxPages * page_size
    /\ tsec \in bundles
    /\ s3sec \in BucketSecrets
    /\ API_VERSION = DefaultApiVersion
    /\ VERIFY_SSL = DefaultVerifySsl
    /\ run = 1
    /\ replay = NoReplay
    /\ creds = NoCreds
    /\ session = NoSession
    /\ users = <<>>
    /\ page = 0
    /\ log = <<>>
    /\ err = NoErr
    /\ s3obj = NoObject
    /\ s3dest = NoDest
    /\ puts = 0
    /\ result = NoResult

Init == InitWith(PlainBundles, MaxUsers, MaxPageSize, Sessions)

\* tsec.get(k, "")
SecretGet(sec, k) == IF k \in DOMAIN sec THEN sec[k] ELSE <<>>

\* lambda_handler, lines 127-145: read the secrets, set the module globals
\* (lines 135-136), then read the required keys; a missing one raises
LoadConfig ==
    /\ pc = "start"
    /\ API_VERSION' = IF "API_VERSION" \in DOMAIN tsec THEN tsec.API_VERSION ELSE API_VERSION
    /\ VERIFY_SSL' = ToBool(IF "VERIFY_SSL" \in DOMAIN tsec THEN tsec.VERIFY_SSL
                            ELSE BoolValue(VERIFY_SSL), TRUE)
    /\ IF RequiredKeys \subseteq DOMAIN tsec /\ "S3_BUCKET" \in DOMAIN s3sec
       THEN /\ creds' = [pat_name |-> tsec.PAT_NAME, pat_secret |-> tsec.PAT_SECRET,
                         site |-> SecretGet(tsec, "SITE_CONTENT_URL")]
            /\ pc' = "signin"
            /\ UNCHANGED <<session, users, page, log, err, s3obj, s3dest, puts, result>>
       ELSE /\ Raise("ConfigError", NoResponse)
            /\ UNCHANGED log
    /\ UNCHANGED <<server, page_size, tsec, s3sec, run, replay>>

\* only the status tested
SigninRejectedByStatus(status, ctype) == status # 200

\* status != 200 or "xml" not in (ctype or "").lower()
SigninRejected(status, ctype) == status # 200 \/ ~IsXmlCType(ctype)

\* signin, called from lambda_handler line 147; on success lambda_handler
\* enters list_site_users, which starts with users = [] and page = 1 (line 76)
SignIn ==
    /\ pc = "signin"
    /\ \E w \in Answers("signin", "xml", 0) :
          LET r == HttpRequest(w)
          IN IF r.raised
             THEN /\ log' = Append(log, Request("signin", "xml", 0, w, Unparsed))
                  /\ Raise("TransportError", NoResponse)
             ELSE IF SigninRejected(r.status, r.ctype)
             THEN /\ log' = Append(log, Request("signin", "xml", 0, w, Unparsed))
                  /\ Raise("SigninError", r)
             ELSE \/ /\ Readable("signin", "xml", 0)
                     /\ log' = Append(log, Request("signin", "xml", 0, w, ParsedSession(server.session)))
                     /\ session' = server.session
                     /\ pc' = "list_json"
                     /\ users' = <<>>
                     /\ page' = 1
                     /\ UNCHANGED <<creds, err, s3obj, s3dest, puts, result>>
                  \/ /\ Garbled("signin", "xml", 0)
                     /\ log' = Append(log, Request("signin", "xml", 0, w, Unparsed))
                     /\ Raise("ParseError", r)
    /\ UNCHANGED <<server, page_size, tsec, s3sec, run, replay, API_VERSION, VERIFY_SSL>>

\* only the status tested
JsonAcceptedByStatus(status, ctype) == status = 200

\* status == 200 and (ctype or "").lower().startswith("application/json")
JsonAccepted(status, ctype) == status = 200 /\ IsJsonCType(ctype)

\* the pagination metadata ignored
JsonTotalOfBatch(srv, batch) == Len(batch)

\* int(data.get("pagination", {}).get("totalAvailable", len(batch)))
JsonTotal(srv, batch) == IF srv.reportsTotal THEN srv.n ELSE Len(batch)

\* the bound tested one page early
JsonStopEarly(p, size, total, batch) == (p + 1) * size >= total \/ batch = <<>>

\* page * page_size >= total or not batch
JsonStop(p, size, total, batch) == p * size >= total \/ batch = <<>>

\* the batch put in front of the accumulator
ExtendFront(acc, batch) == batch \o acc

\* the batch kept in place of the accumulator
ExtendOver(acc, batch) == batch

\* users.extend(batch)
Extend(acc, batch) == acc \o batch

\* a page left out
NextPageSkipping(p) == p + 2

\* page += 1
NextPage(p) == p + 1

\* list_site_users, lines 78-89: the structured request for the current page
ListJson ==
    /\ pc = "list_json"
    /\ \E w \in Answers("users", "json", page) :
          LET r == HttpRequest(w)
          IN IF r.raised
             THEN /\ log' = Append(log, Request("users", "json", page, w, Unparsed))
                  /\ Raise("TransportError", NoResponse)
             ELSE IF JsonAccepted(r.status, r.ctype)
             THEN \/ LET batch == JsonBatch(server, page)
                         total == JsonTotal(server, batch)
                     IN /\ Readable("users", "json", page)
                        /\ log' = Append(log, Request("users", "json", page, w,
                                                      ParsedPage(Len(batch), total)))
                        /\ users' = Extend(users, batch)
                        /\ IF JsonStop(page, page_size, total, batch)
                           THEN pc' = "write" /\ page' = page
                           ELSE pc' = "list_json" /\ page' = NextPage(page)
                        /\ UNCHANGED <<creds, session, err, s3obj, s3dest, puts, result>>
                  \/ /\ Garbled("users", "json", page)
                     /\ log' = Append(log, Request("users", "json", page, w, Unparsed))
                     /\ Raise("ParseError", r)
             ELSE /\ log' = Append(log, Request("users", "json", page, w, Unparsed))
                  /\ pc' = "list_xml"
                  /\ UNCHANGED <<creds, session, users, page, err, s3obj, s3dest, puts, result>>
    /\ UNCHANGED <<server, page_size, tsec, s3sec, run, replay, API_VERSION, VERIFY_SSL>>

\* status != 200 or "xml" not in (ctype or "").lower()
XmlRejected(status, ctype) == status # 200 \/ ~IsXmlCType(ctype)

\* only the empty batch tested
XmlStopOnEmpty(batch, size) == batch = <<>>

\* not batch or len(batch) < page_size
XmlStop(batch, size) == batch = <<>> \/ Len(batch) < size

\* the markup format kept for the next page
AfterXmlPagePinned == "list_xml"

\* after page += 1 (line 103) the loop starts over at line 78: the next
\* page is requested in the structured format first
AfterXmlPage == "list_json"

\* list_site_users, lines 91-103: the markup request for the same page
ListXml ==
    /\ pc = "list_xml"
    /\ \E w \in Answers("users", "xml", page) :
          LET r == HttpRequest(w)
          IN IF r.raised
             THEN /\ log' = Append(log, Request("users", "xml", page, w, Unparsed))
                  /\ Raise("TransportError", NoResponse)
             ELSE IF XmlRejected(r.status, r.ctype)
             THEN /\ log' = Append(log, Request("users", "xml", page, w, Unparsed))
                  /\ Raise("ListError", r)
             ELSE \/ LET batch == XmlBatch(server, page)
                     IN /\ Readable("users", "xml", page)
                        /\ log' = Append(log, Request("users", "xml", page, w,
                                                      ParsedPage(Len(batch), -1)))
                        /\ users' = Extend(users, batch)
                        /\ IF XmlStop(batch, page_size)
                           THEN pc' = "write" /\ page' = page
                           ELSE pc' = AfterXmlPage /\ page' = NextPage(page)
                        /\ UNCHANGED <<creds, session, err, s3obj, s3dest, puts, result>>
                  \/ /\ Garbled("users", "xml", page)
                     /\ log' = Append(log, Request("users", "xml", page, w, Unparsed))
                     /\ Raise("ParseError", r)
    /\ UNCHANGED <<server, page_size, tsec, s3sec, run, replay, API_VERSION, VERIFY_SSL>>

HARD_CODED_PREFIX == "tableau"

\* the run number made part of the key
ExportKeyPerRun == HARD_CODED_PREFIX \o "/" \o Digit(run) \o "/tableau_server_users.csv"

\* f"{HARD_CODED_PREFIX}/tableau_server_users.csv"
ExportKey == HARD_CODED_PREFIX \o "/tableau_server_users.csv"

\* write_csv_to_s3, called from lambda_handler line 153: the text is put
\* under the export key of the bucket
WriteCsvToS3 ==
    /\ pc = "write"
    /\ \/ /\ s3obj' = CsvText(Rows(users))
          /\ s3dest' = [bucket |-> s3sec.S3_BUCKET, key |-> ExportKey]
          /\ puts' = puts + 1
          /\ pc' = "wrote"
          /\ UNCHANGED <<creds, session, users, page, log, err, result>>
       \/ /\ Raise("StorageError", NoResponse)
          /\ UNCHANGED log
    /\ UNCHANGED <<server, page_size, tsec, s3sec, run, replay, API_VERSION, VERIFY_SSL>>

\* the built-in API version reported
HandlerResultDefaultApi(us, bucket, key) ==
    [status |-> "ok", count |-> Len(us), bucket |-> bucket, key |-> key,
     api_version |-> DefaultApiVersion]

\* the dictionary of line 156
HandlerResult(us, bucket, key) ==
    [status |-> "ok", count |-> Len(us), bucket |-> bucket, key |-> key,
     api_version |-> API_VERSION]

\* lambda_handler, lines 154-156: key is what write_csv_to_s3 returned
Return ==
    /\ pc = "wrote"
    /\ result' = HandlerResult(users, s3sec.S3_BUCKET, s3dest.key)
    /\ pc' = "done"
    /\ UNCHANGED <<creds, session, users, page, log, err, s3obj, s3dest, puts>>
    /\ UNCHANGED <<server, page_size, tsec, s3sec, run, replay, API_VERSION, VERIFY_SSL>>

Next == LoadConfig \/ SignIn \/ ListJson \/ ListXml \/ WriteCsvToS3 \/ Return

Spec == Init /\ [][Next]_vars

\* a request returns or times out, so a pending loop step is taken
FairSpec == Spec /\ WF_vars(ListJson) /\ WF_vars(ListXml)

\* the same run, started with secrets that hold reserved characters
SigninSpec ==
    InitWith(ReservedBundles \cup PlainBundles \cup NoSiteBundles, 1, 2, Sessions) /\ [][Next]_vars

\* ---------------------------------------------------------------- the process
MaxRuns == 2

\* the locals of a run that has ended are gone; the module globals, the
\* secrets' store and the object store stay
FreshLocals ==
    /\ pc' = "start"
    /\ run' = run + 1
    /\ creds' = NoCreds
    /\ session' = NoSession
    /\ users' = <<>>
    /\ page' = 0
    /\ log' = <<>>
    /\ err' = NoErr
    /\ puts' = 0
    /\ result' = NoResult
    /\ UNCHANGED <<server, page_size, s3sec, s3obj, s3dest, API_VERSION, VERIFY_SSL>>

\* lambda_handler is invoked again in the same process, the Tableau secret
\* possibly edited in between
Reinvoke ==
    /\ pc \in {"done", "failed"}
    /\ run < MaxRuns
    /\ tsec' \in ConfigBundles
    /\ replay' = NoReplay
    /\ FreshLocals

\* lambda_handler is invoked again with the configuration and the server
\* as they were: what the earlier run exchanged and stored is kept for
\* comparison
Rerun ==
    /\ pc \in {"done", "failed"}
    /\ run < MaxRuns
    /\ tsec' = tsec
    /\ replay' = [log |-> log, s3obj |-> s3obj, s3dest |-> s3dest, result |-> result]
    /\ FreshLocals

WarmNext == Next \/ Reinvoke

\* a process that serves several invocations
WarmSpec == InitWith(ConfigBundles, 1, 1, TwoSessions) /\ [][WarmNext]_vars

RerunNext == Next \/ Rerun

\* single runs of a fresh process with the optional settings
ConfigSpec == InitWith(ConfigBundles, 1, 1, Sessions) /\ [][Next]_vars

\* two runs with the same configuration against an unchanged server
RerunSpec == InitWith(PlainBundles, 2, 2, Sessions) /\ [][RerunNext]_vars

\* ---------------------------------------------------------------- claims
\* list_site_users has returned to lambda_handler
Returned == pc \in {"write", "wrote", "done"}

\* the listing requests of the log
UsersRequests == SelectSeq(log, LAMBDA e : e.op = "users")

\* the listing requests whose response was parsed into a batch
ParsedRequests == SelectSeq(log, LAMBDA e : e.op = "users" /\ e.n >= 0)

StopEntry == Last(log)

\* C2 as stated: the loop stops only when the accumulated count has reached
\* the reported total (JSON), the batch is empty, or the XML batch is short.
C2_StopsOnlyWhenCountReachesTotal ==
    pc = "write" =>
        \/ StopEntry.accept = "json" /\ Len(users) >= StopEntry.total
        \/ StopEntry.n = 0
        \/ StopEntry.accept = "xml" /\ StopEntry.n < page_size

\* the loop stops only when page * page_size has reached the total of the
\* JSON response, the batch is empty, or the XML batch is short
StopsOnlyAtPageBound ==
    pc = "write" =>
        \/ StopEntry.accept = "json" /\ StopEntry.page * StopEntry.page_size >= StopEntry.total
        \/ StopEntry.n = 0
        \/ StopEntry.accept = "xml" /\ StopEntry.n < page_size

InLoop == pc \in {"list_json", "list_xml"}

\* C2 amended: the pagination loop terminates, and it stops only when
\* page * page_size has reached the reported total (JSON), the batch is
\* empty, or the XML batch is smaller than the page size.
C2_TerminatesAtPageBound ==
    /\ []StopsOnlyAtPageBound
    /\ (InLoop ~> ~InLoop)

\* C2 witness: the loop stopped on a JSON page holding fewer records than the total
C2_Witness ==
    /\ pc = "write" /\ StopEntry.accept = "json" /\ StopEntry.n > 0
    /\ Len(users) < StopEntry.total /\ StopEntry.page >= 2

\* the response of log entry e was not HTTP 200 with a JSON content type
JsonRefused(e) ==
    e.op = "users" /\ e.accept = "json" /\ e.status # 0
    /\ ~(e.status = 200 /\ IsJsonCType(e.ctype))

\* the response of log entry e was not HTTP 200 with a markup content type
XmlRefused(e) ==
    e.accept = "xml" /\ e.status # 0 /\ ~(e.status = 200 /\ IsXmlCType(e.ctype))

\* C3: a refused JSON response is followed by an XML request for the same
\* page and page size before anything fails; a refused XML response fails
\* the listing with the XML attempt's status and content type, and no
\* records are returned.
C3_FallbackThenListError ==
    /\ \A i \in 1..Len(log) :
          JsonRefused(log[i]) =>
              IF i = Len(log)
              THEN pc = "list_xml" /\ err = NoErr
              ELSE /\ log[i + 1].op = "users" /\ log[i + 1].accept = "xml"
                   /\ log[i + 1].page = log[i].page
                   /\ log[i + 1].page_size = log[i].page_size
    /\ (log # <<>> /\ Last(log).op = "users" /\ XmlRefused(Last(log))) =>
          /\ pc = "failed" /\ err.kind = "ListError"
          /\ err.status = Last(log).status /\ err.ctype = Last(log).ctype
          /\ users = <<>> /\ result = NoResult
    /\ err.kind = "ListError" =>
          /\ Len(log) >= 2 /\ XmlRefused(Last(log)) /\ JsonRefused(log[Len(log) - 1])

\* C3 witness: both attempts of a later page refused, with different statuses
C3_Witness ==
    /\ pc = "failed" /\ err.kind = "ListError" /\ page >= 2
    /\ err.status = 200 /\ log[Len(log) - 1].status = 406

\* C4: the put happens at most once and only after sign-in succeeded and the
\* listing returned; a failed run has stored nothing, returned nothing and
\* kept none of the records.
C4_AllOrNothing ==
    /\ puts <= 1
    /\ puts = 1 =>
          /\ pc \in {"wrote", "done"} /\ session # NoSession
          /\ \E i \in 1..Len(log) : log[i].op = "signin" /\ log[i].status = 200
          /\ Last(log).op = "users" /\ Last(log).n >= 0
    /\ puts = 0 => s3obj = NoObject
    /\ pc = "failed" => puts = 0 /\ s3obj = NoObject /\ users = <<>> /\ result = NoResult

\* C4 witness: a later page fails after earlier pages were accumulated
C4_Witness ==
    /\ pc = "failed" /\ page >= 2 /\ puts = 0
    /\ \E i \in 1..Len(log) : log[i].op = "users" /\ log[i].n > 0

Ceil(a, b) == (a + b - 1) \div b

Max(a, b) == IF a > b THEN a ELSE b

\* every page of the run was served in JSON
AllJson == \A i \in 1..Len(UsersRequests) : UsersRequests[i].accept = "json" /\ UsersRequests[i].n >= 0

\* the page numbers requested, in order
PagesRequested == [i \in 1..Len(UsersRequests) |-> UsersRequests[i].page]

\* C5 as stated: a conforming server answering in JSON with total T is
\* asked for exactly the pages 1..ceil(T / page_size), and T records are
\* accumulated.
C5_CeilPagesRequested ==
    (Returned /\ Conforming /\ AllJson) =>
        /\ PagesRequested = [i \in 1..Ceil(server.n, page_size) |-> i]
        /\ Len(users) = server.n

\* C5 amended: the pages asked for are 1..max(1, ceil(T / page_size)): page 1
\* is requested even when T = 0; T records are accumulated.
C5_CeilPagesAtLeastOne ==
    (Returned /\ Conforming /\ AllJson) =>
        /\ PagesRequested = [i \in 1..Max(1, Ceil(server.n, page_size)) |-> i]
        /\ Len(users) = server.n

\* C5 witness: total 5 at page size 2 (2500 at 1000): pages 1, 2, 3
C5_Witness ==
    /\ pc = "write" /\ Conforming /\ AllJson
    /\ server.n = 5 /\ page_size = 2
    /\ PagesRequested = <<1, 2, 3>> /\ Len(users) = 5

C7_SigninOnly200Xml ==
    /\ session # NoSession =>
          /\ log[1].op = "signin" /\ log[1].status = 200 /\ IsXmlCType(log[1].ctype)
    /\ (log # <<>> /\ log[1].status # 0 /\ ~(log[1].status = 200 /\ IsXmlCType(log[1].ctype))) =>
          /\ pc = "failed" /\ err.kind = "SigninError"
          /\ err.status = log[1].status /\ err.ctype = log[1].ctype
          /\ err.snippet = Min(err.len, 400)
          /\ session = NoSession /\ Len(log) = 1 /\ puts = 0 /\ s3obj = NoObject
    /\ err.kind = "SigninError" => err.snippet <= 400

\* C7 witness: HTTP 200 with a non-markup content type and a long body
C7_Witness ==
    /\ pc = "failed" /\ err.kind = "SigninError"
    /\ err.status = 200 /\ err.len > 400 /\ err.snippet = 400

\* ---- reading the sign-in body back, as a markup parser does
At(b, i) == IF i \in 1..Len(b) THEN b[i] ELSE ""

\* the position of the first quote at or after i, or 0
RECURSIVE FindQuote(_, _)
FindQuote(b, i) ==
    IF i > Len(b) THEN 0 ELSE IF b[i] = "\"" THEN i ELSE FindQuote(b, i + 1)

\* an attribute value as written: no raw < or &; the references stand for
\* the characters they escape
RawOk(v) == \A j \in 1..Len(v) : v[j] \notin {"<", "&"}

Unescape(v) ==
    [j \in 1..Len(v) |->
        IF v[j] = "&quot;" THEN "\"" ELSE IF v[j] = "&lt;" THEN "<"
        ELSE IF v[j] = "&amp;" THEN "&" ELSE v[j]]

Malformed == [ok |-> FALSE, name |-> <<>>, secret |-> <<>>, site |-> <<>>]

\* the three attribute values of a well-formed sign-in body
ParseSignin(b) ==
    LET q1 == FindQuote(b, 5)
        q2 == FindQuote(b, q1 + 3)
        q3 == FindQuote(b, q2 + 5)
        name == SubSeq(b, 5, q1 - 1)
        secret == SubSeq(b, q1 + 3, q2 - 1)
        site == SubSeq(b, q2 + 5, q3 - 1)
    IN IF /\ SubSeq(b, 1, 4) = <<"<tsRequest>", "<credentials", " personalAccessTokenName=", "\"">>
          /\ q1 > 0
          /\ At(b, q1 + 1) = " personalAccessTokenSecret=" /\ At(b, q1 + 2) = "\""
          /\ q2 > 0
          /\ At(b, q2 + 1) = ">" /\ At(b, q2 + 2) = "<site"
          /\ At(b, q2 + 3) = " contentUrl=" /\ At(b, q2 + 4) = "\""
          /\ q3 > 0
          /\ At(b, q3 + 1) = "/>" /\ At(b, q3 + 2) = "</credentials>"
          /\ At(b, q3 + 3) = "</tsRequest>" /\ Len(b) = q3 + 3
          /\ RawOk(name) /\ RawOk(secret) /\ RawOk(site)
       THEN [ok |-> TRUE, name |-> Unescape(name), secret |-> Unescape(secret),
             site |-> Unescape(site)]
       ELSE Malformed

\* C8: the sign-in body sent is one tsRequest with one credentials element
\* and one site child, and its attribute values read back as the name, the
\* secret and the site slug supplied, whatever characters they hold.
C8_SigninBodyKeepsStructure ==
    \A i \in 1..Len(log) :
        log[i].op = "signin" =>
            ParseSignin(log[i].body) =
                [ok |-> TRUE, name |-> creds.pat_name, secret |-> creds.pat_secret,
                 site |-> creds.site]

\* ---- reading the stored text back, as a csv reader does
\* a quoted field from position i on: up to the closing quote, a doubled
\* quote standing for one
RECURSIVE ReadQuoted(_, _, _)
ReadQuoted(t, i, acc) ==
    IF i > Len(t) THEN [val |-> acc, next |-> i]
    ELSE IF t[i] = "\""
    THEN IF At(t, i + 1) = "\""
         THEN ReadQuoted(t, i + 2, Append(acc, "\""))
         ELSE [val |-> acc, next |-> i + 1]
    ELSE ReadQuoted(t, i + 1, Append(acc, t[i]))

\* an unquoted field: up to the next comma or line end
RECURSIVE ReadPlain(_, _, _)
ReadPlain(t, i, acc) ==
    IF i > Len(t) \/ t[i] \in {",", "\r", "\n"} THEN [val |-> acc, next |-> i]
    ELSE ReadPlain(t, i + 1, Append(acc, t[i]))

ReadField(t, i) ==
    IF At(t, i) = "\"" THEN ReadQuoted(t, i + 1, <<>>) ELSE ReadPlain(t, i, <<>>)

\* one line from position i on: its fields, and where the next line starts
RECURSIVE ReadRow(_, _, _)
ReadRow(t, i, row) ==
    LET f == ReadField(t, i)
    IN IF At(t, f.next) = ","
       THEN ReadRow(t, f.next + 1, Append(row, f.val))
       ELSE [row |-> Append(row, f.val),
             next |-> IF At(t, f.next) = "\r" /\ At(t, f.next + 1) = "\n"
                      THEN f.next + 2 ELSE f.next + 1]

RECURSIVE ReadRows(_, _, _)
ReadRows(t, i, rows) ==
    IF i > Len(t) THEN rows
    ELSE LET r == ReadRow(t, i, <<>>)
         IN ReadRows(t, r.next, Append(rows, r.row))

\* the rows of the stored object
StoredRows == ReadRows(s3obj, 1, <<>>)

HeaderNames == << <<"id">>, <<"name">>, <<"fullName">>, <<"siteRole">>, <<"lastLogin">>, <<"email">> >>

\* C9: every row of the stored text has six columns; the header names them
\* id, name, fullName, siteRole, lastLogin, email, and column j of a data row
\* holds the record's value of field j or nothing, for JSON and XML records
\* alike, whatever other keys the record has.
C9_SixColumnsInOrder ==
    puts = 1 =>
        LET rows == StoredRows
        IN /\ Len(rows) >= 1
           /\ rows[1] = HeaderNames
           /\ \A r \in 1..Len(rows) : Len(rows[r]) = 6
           /\ \A r \in 2..Len(rows) : \A j \in 1..6 :
                 rows[r][j] = <<>> \/ rows[r][j][1] = HeaderNames[j][1]

\* C9 witness: a stored export of JSON records and XML records
C9_Witness ==
    /\ puts = 1
    /\ \E i, j \in 1..Len(users) :
          "authSetting" \in DOMAIN users[i] /\ "externalAuthUserId" \in DOMAIN users[j]

\* C10: the stored text starts with the header row, followed by one row per
\* accumulated record in accumulator order; with zero users it is the header
\* row alone, and it is stored all the same.
C10_HeaderThenOneRowPerRecord ==
    /\ puts = 1 =>
          LET rows == StoredRows
          IN /\ Len(rows) = 1 + Len(users)
             /\ rows[1] = HeaderNames
             /\ \A i \in 1..Len(users) : rows[i + 1][1] = users[i].id
             /\ server.n = 0 => rows = <<HeaderNames>>
    /\ pc = "done" => puts = 1 /\ s3obj # NoObject

\* C10 witness: a finished run against a server with zero users
C10_Witness == pc = "done" /\ server.n = 0 /\ StoredRows = <<HeaderNames>>

\* C11: a record lacking any of the six fields is written as a row whose
\* column is the empty string where the field is missing and the record's
\* own value where it is present; the missing field raises nothing.
C11_MissingFieldsWrittenEmpty ==
    puts = 1 =>
        LET rows == StoredRows
        IN /\ Len(rows) = Len(users) + 1
           /\ err = NoErr
           /\ \A i \in 1..Len(users) :
                 /\ Len(rows[i + 1]) = Len(fields)
                 /\ \A j \in 1..Len(fields) :
                       rows[i + 1][j] = IF fields[j] \in DOMAIN users[i]
                                        THEN users[i][fields[j]]
                                        ELSE <<>>

\* C11 witness: the export holds a record lacking three fields, one lacking
\* only the email, and a complete one
C11_Witness ==
    /\ puts = 1
    /\ \E i \in 1..Len(users) : {"fullName", "lastLogin", "email"} \cap DOMAIN users[i] = {}
    /\ \E i \in 1..Len(users) : {f \in {fields[j] : j \in 1..Len(fields)} : f \notin DOMAIN users[i]} = {"email"}
    /\ \E i \in 1..Len(users) : \A j \in 1..Len(fields) : fields[j] \in DOMAIN users[i]

\* C12: _http_request returns an error status to its caller as the same
\* triple as a success, status and content type as the server sent them
\* (no content type read as ""), so that the caller's own test decides; it
\* raises only when no response arrived, and then the run ends with that
\* error and no further request.
C12_HttpErrorsReturnedNotRaised ==
    /\ \A i \in 1..Len(log) :
          LET e == log[i]
          IN /\ e.sent.kind \in {"response", "HTTPError"} =>
                   ~e.raised /\ e.status = e.sent.status /\ e.ctype = e.sent.ctype
             /\ e.sent.kind = "URLError" => e.raised
             /\ e.raised => i = Len(log) /\ pc = "failed" /\ err.kind = "TransportError"
    /\ err.kind = "TransportError" => log # <<>> /\ Last(log).sent.kind = "URLError"
    /\ (log # <<>> /\ Last(log).sent.kind = "HTTPError") =>
          \/ Last(log).op = "signin" /\ err.kind = "SigninError" /\ err.status = Last(log).sent.status
          \/ Last(log).op = "users" /\ Last(log).accept = "json" /\ pc = "list_xml" /\ err = NoErr
          \/ Last(log).op = "users" /\ Last(log).accept = "xml" /\ err.kind = "ListError"
             /\ err.status = Last(log).sent.status

\* C12 witness: an error status without content type was answered by the
\* markup request, and the connection failed on a later page
C12_Witness ==
    /\ pc = "failed" /\ err.kind = "TransportError" /\ Last(log).page >= 2
    /\ \E i \in 1..Len(log) : /\ log[i].sent.kind = "HTTPError" /\ log[i].ctype = ""
                              /\ log[i + 1].accept = "xml" /\ log[i + 1].parsed

\* the request of a log entry, without what came back
RequestOf(e) == [f \in RequestFields |-> e[f]]

\* C13: a run with the same configuration against the unchanged server
\* issues the same requests in the same order as the run before it, and
\* when both complete it has put the same bytes under the same key of the
\* same bucket and returned the same result.
C13_RerunSameRequestsSameOutput ==
    run >= 2 =>
        /\ Len(log) <= Len(replay.log)
        /\ \A i \in 1..Len(log) : RequestOf(log[i]) = RequestOf(replay.log[i])
        /\ pc \in {"wrote", "done", "failed"} => Len(log) = Len(replay.log)
        /\ (puts = 1 /\ replay.s3dest # NoDest) =>
              s3obj = replay.s3obj /\ s3dest = replay.s3dest
        /\ (pc = "done" /\ replay.result # NoResult) => result = replay.result

\* C13 witness: the second of two completed runs that read several pages,
\* one of them in markup, and stored several records
C13_Witness ==
    /\ run = 2 /\ pc = "done" /\ replay.result # NoResult
    /\ Len(log) >= 4 /\ Len(users) >= 2
    /\ \E i \in 1..Len(log) : log[i].accept = "xml" /\ log[i].parsed /\ log[i].op = "users"

RECURSIVE SumOfBatchSizes(_)
SumOfBatchSizes(es) == IF es = <<>> THEN 0 ELSE Head(es).n + SumOfBatchSizes(Tail(es))

\* the batch the server's page held for a parsed listing request
BatchOf(e) == IF e.accept = "json" THEN JsonBatch(server, e.page) ELSE XmlBatch(server, e.page)

\* C14: inside the loop and after list_site_users returned, the accumulator
\* is the batches of the parsed pages one after the other, each record once
\* and in order, the stopping page's batch included; its length is the sum
\* of the batch sizes.
C14_AccumulatorHoldsEveryParsedBatch ==
    (InLoop \/ Returned) =>
        /\ Len(users) = SumOfBatchSizes(ParsedRequests)
        /\ users = Concat([i \in 1..Len(ParsedRequests) |-> BatchOf(ParsedRequests[i])])

\* C14 witness: the loop stopped on a page that held records, after a JSON
\* page and a markup page
C14_Witness ==
    /\ pc = "write" /\ Last(log).n > 0 /\ Len(ParsedRequests) >= 3
    /\ \E i, j \in 1..(Len(ParsedRequests) - 1) :
          ParsedRequests[i].accept = "json" /\ ParsedRequests[j].accept = "xml"
          /\ ParsedRequests[i].n > 0 /\ ParsedRequests[j].n > 0

\* C15: the format is chosen anew for every page: a markup request follows
\* the refused JSON request for the same page and nothing else, and after a
\* page read in markup the next request is the JSON request for the next page.
C15_JsonFirstOnEveryPage ==
    /\ \A i \in 1..Len(log) :
          (log[i].op = "users" /\ log[i].accept = "xml") =>
              /\ i > 1 /\ JsonRefused(log[i - 1]) /\ log[i - 1].page = log[i].page
    /\ \A i \in 1..Len(log) :
          (log[i].op = "users" /\ log[i].accept = "xml" /\ log[i].parsed) =>
              IF i = Len(log)
              THEN pc # "list_xml"
              ELSE /\ log[i + 1].accept = "json" /\ log[i + 1].page = log[i].page + 1
    /\ \A i \in 1..Len(log) :
          (i > 1 /\ log[i].op = "users" /\ log[i - 1].op = "users"
           /\ log[i].page # log[i - 1].page) => log[i].accept = "json"
    /\ pc = "list_xml" => log # <<>> /\ JsonRefused(Last(log)) /\ Last(log).page = page

\* C15 witness: after a page read in markup the next page was requested in
\* JSON and read in JSON, and the page after it fell back to markup again
C15_Witness ==
    \E i \in 1..Len(log) :
        /\ i + 3 <= Len(log)
        /\ log[i].accept = "xml" /\ log[i].parsed /\ log[i].op = "users"
        /\ log[i + 1].accept = "json" /\ log[i + 1].parsed
        /\ log[i + 2].accept = "json" /\ ~log[i + 2].parsed
        /\ log[i + 3].accept = "xml" /\ log[i + 3].page = log[i].page + 2

\* C17: the pages requested are 1, 2, 3, ... without gap or repetition, a
\* page is requested at most once in JSON and at most once in markup, and a
\* connection failure is the last request of its run.
C17_NoRequestRetried ==
    /\ \A i \in 1..Len(UsersRequests) :
          LET e == UsersRequests[i]
          IN /\ i = 1 => e.page = 1 /\ e.accept = "json"
             /\ i > 1 => \/ e.page = UsersRequests[i - 1].page + 1
                         \/ /\ e.page = UsersRequests[i - 1].page
                            /\ e.accept = "xml" /\ UsersRequests[i - 1].accept = "json"
    /\ \A i, j \in 1..Len(log) :
          (i # j /\ log[i].op = log[j].op /\ log[i].page = log[j].page) =>
              log[i].accept # log[j].accept
    /\ \A p \in 1..page : Cardinality({i \in 1..Len(log) : log[i].op = "users" /\ log[i].page = p}) <= 2
    /\ \A i \in 1..Len(log) :
          log[i].raised => i = Len(log) /\ pc = "failed" /\ err.kind = "TransportError"

\* C17 witness: three pages were requested, two of them in both formats,
\* and the connection failed on the last request
C17_Witness ==
    /\ Len(UsersRequests) = 5
    /\ pc = "failed" /\ Last(log).raised /\ Last(log).page = 3

\* the run's requests are the sign-in first and listing requests after it,
\* each with the token and the site id that sign-in granted; a put is
\* made once, after the listing returned
SignInThenListing ==
    /\ \A i \in 1..Len(log) : log[i].op = IF i = 1 THEN "signin" ELSE "users"
    /\ \A i \in 2..Len(log) :
          /\ log[1].parsed /\ log[1].granted # NoSession
          /\ log[i].token = log[1].granted.token
          /\ log[i].site_id = log[1].granted.site_id
    /\ puts <= 1
    /\ puts = 1 => pc \in {"wrote", "done"} /\ Len(log) >= 2 /\ Last(log).parsed

\* a request is issued only by a run that has put nothing
RequestsBeforePut == (log' # log /\ log' # <<>>) => (puts = 0 /\ puts' = 0)

\* C16: every run signs in exactly once, before any listing request; every
\* listing request carries the token and site id of that sign-in; all
\* requests precede the single put.
C16_SignInListingPutInSequence ==
    /\ []SignInThenListing
    /\ [][RequestsBeforePut]_vars

\* C16 witness: a later run of the process, granted the second session,
\* listed two pages in three requests and stored the export
C16_Witness ==
    /\ run = 2 /\ puts = 1 /\ Len(log) >= 4 /\ Last(log).page >= 2
    /\ log[1].granted = [token |-> "tokB", site_id |-> "site2"]

\* the settings a run's own bundle stands for, the built-in defaults where
\* it omits them
OwnApiVersion == IF "API_VERSION" \in DOMAIN tsec THEN tsec.API_VERSION ELSE DefaultApiVersion
OwnVerifySsl ==
    IF "VERIFY_SSL" \in DOMAIN tsec THEN ToBool(tsec.VERIFY_SSL, TRUE) ELSE DefaultVerifySsl

\* C18: every request of a run uses the API version and the verification
\* flag of the run's own bundle, "3.19" and verification on where the
\* bundle omits them, whatever an earlier run of the process used.
C18_SettingsFromOwnBundleOnly ==
    \A i \in 1..Len(log) : log[i].api = OwnApiVersion /\ log[i].verify = OwnVerifySsl

FalseStrings == {"0", "false", "no", "n", "off"}

\* the value is the boolean false or a string that reads as false
ExplicitFalse(val) ==
    \/ val = BoolValue(FALSE)
    \/ val.t = "str" /\ StripLower(val.v) \in FalseStrings

\* C19: a request is sent without certificate verification only when the
\* bundle holds an explicit false for VERIFY_SSL.
C19_InsecureOnlyOnExplicitFalse ==
    \A i \in 1..Len(log) :
        ~log[i].verify => "VERIFY_SSL" \in DOMAIN tsec /\ ExplicitFalse(tsec.VERIFY_SSL)

\* C20: the result of a completed run reports the number of data rows of
\* the stored text, which is the length of the list returned, the bucket
\* and the key of the put, the key being tableau/tableau_server_users.csv,
\* and the API version of every request URL of the run.
C20_ResultMatchesRun ==
    /\ pc = "done" =>
          /\ result.status = "ok"
          /\ result.count = Len(users)
          /\ Len(StoredRows) = result.count + 1
          /\ result.bucket = s3dest.bucket /\ result.bucket = s3sec.S3_BUCKET
          /\ result.key = s3dest.key
          /\ result.key = "tableau/tableau_server_users.csv"
          /\ \A i \in 1..Len(log) : log[i].api = result.api_version
    /\ pc # "done" => result = NoResult

\* C20 witness: a later run that listed with an API version other than the
\* built-in one returned after storing a record
C20_Witness ==
    /\ pc = "done" /\ run = 2 /\ result.count = 1
    /\ result.api_version = "3.20" /\ Len(log) >= 3

====
